---- MODULE Spec2Model ----
(***************************************************************************)
(* Model of agentic_content_creation: the environment loader               *)
(* (env_helper.py) and the crew assembler (crew.py).                       *)
(*                                                                         *)
(* The process environment (os.environ) and the local environment file     *)
(* (.env, as parsed by load_dotenv) are maps from keys to string values;   *)
(* strings are numbered 1..NumVals and None stands for "not set".          *)
(***************************************************************************)
EXTENDS Integers, Sequences, FiniteSets, TLC

\* ---------------------------------------------------------------- bounds
NumVals == 2          \* distinct string values a key may be set to
MaxCalls == 3         \* get_value calls made by a client of the loader
MaxEdits == 2         \* edits of the local environment file
MaxInstances == 2     \* AgenticContentCreation() instances
MaxCrewCalls == 2     \* calls of crew()
MaxRuns == 1          \* kickoffs of an assembled crew

\* ------------------------------------------------------------- constants
None == 0                                 \* Python None: os.getenv's default
Vals == 1..NumVals
OptVals == Vals \cup {None}
SERPER_API_KEY == "SERPER_API_KEY"
Keys == {SERPER_API_KEY, "OTHER_KEY"}
EnvMaps == [Keys -> OptVals]

VARIABLES
    environ,      \* os.environ
    dotenv,       \* bindings of the local environment file (None: not defined)
    environ0,     \* os.environ at process start
    lastCall,     \* the last get_value call: arguments, result, history
    lastSeen,     \* per key: what the previous get_value(key) saw and returned
    edited,       \* the file was edited since the last get_value call
    calls, edits, \* counters of client calls and file edits
    pc,           \* position in the class body of AgenticContentCreation
    exception,    \* exception raised by the class body ("none" if none)
    serperApiKey, \* class attribute serperApiKey
    exports,      \* number of assignments os.environ["SERPER_API_KEY"] = ...
    tools,        \* class attributes holding tool instances
    agentsReg,    \* methods registered by @agent, in registration order
    tasksReg,     \* methods registered by @task, in registration order
    crewReg,      \* the method registered by @crew was seen
    instances,    \* number of AgenticContentCreation() instances
    crewCalls,    \* number of crew() calls
    crewObj,      \* the Crew returned by the last crew() call
    runs,         \* number of kickoffs
    runPc,        \* "idle", "running", "done", "failed"
    started,      \* tasks started in the current run, in start order
    finished,     \* tasks finished in the current run, in finish order
    running       \* tasks executing right now

loaderVars == <<environ, dotenv, environ0, lastCall, lastSeen, edited, calls, edits>>
classVars == <<pc, exception, serperApiKey, exports, tools, agentsReg, tasksReg, crewReg>>
crewVars == <<instances, crewCalls, crewObj>>
runVars == <<runs, runPc, started, finished, running>>
vars == <<loaderVars, classVars, crewVars, runVars>>

\* ------------------------------------------------------ env_helper.py
\* load_dotenv(path) with its default override=False: every key of the file
\* that the process environment does not have is exported into it.
load_dotenv_override(env, file) ==
    [k \in Keys |-> IF file[k] # None THEN file[k] ELSE env[k]]

load_dotenv(env, file) ==
    [k \in Keys |-> IF env[k] # None THEN env[k] ELSE file[k]]

load_env_skip(env, file) == env

load_env(env, file) == load_dotenv(env, file)

getenv_default(env, key) == IF env[key] = None THEN 1 ELSE env[key]

getenv(env, key) == env[key]

\* get_value(key): the environment after the call and the returned value
get_value_cached(env, file, key) ==
    IF lastSeen[key].called
    THEN [env |-> env, result |-> lastSeen[key].res]
    ELSE [env |-> load_env(env, file), result |-> getenv(load_env(env, file), key)]

get_value(env, file, key) ==
    LET loaded == load_env(env, file)
    IN  [env |-> loaded, result |-> getenv(loaded, key)]

NoCallYet ==
    [key |-> "", envBefore |-> [k \in Keys |-> None],
     fileBefore |-> [k \in Keys |-> None], envAfter |-> [k \in Keys |-> None],
     result |-> None, hasPrev |-> FALSE, prevResult |-> None,
     prevFile |-> None, consecutive |-> FALSE]

\* bookkeeping of one get_value(key) call that returned r
Recorded(key, r) ==
    /\ lastCall' = [key |-> key, envBefore |-> environ, fileBefore |-> dotenv,
                    envAfter |-> r.env, result |-> r.result,
                    hasPrev |-> lastSeen[key].called,
                    prevResult |-> lastSeen[key].res,
                    prevFile |-> lastSeen[key].file,
                    consecutive |-> (lastCall.key = key /\ ~edited)]
    /\ lastSeen' = [lastSeen EXCEPT
                      ![key] = [called |-> TRUE, res |-> r.result, file |-> dotenv[key]]]
    /\ edited' = FALSE

Init ==
    /\ environ \in EnvMaps
    /\ dotenv \in EnvMaps
    /\ environ0 = environ
    /\ lastCall = NoCallYet
    /\ lastSeen = [k \in Keys |-> [called |-> FALSE, res |-> None, file |-> None]]
    /\ edited = FALSE
    /\ calls = 0 /\ edits = 0
    /\ pc = "line30" /\ exception = "none"
    /\ serperApiKey = None /\ exports = 0 /\ tools = {}
    /\ agentsReg = <<>> /\ tasksReg = <<>> /\ crewReg = FALSE
    /\ instances = 0 /\ crewCalls = 0
    /\ crewObj = [agents |-> <<>>, tasks |-> <<>>, process |-> "none"]
    /\ runs = 0 /\ runPc = "idle"
    /\ started = <<>> /\ finished = <<>> /\ running = {}

\* a client calls get_value(key)
CallGetValue(key) ==
    /\ calls < MaxCalls
    /\ LET r == get_value(environ, dotenv, key)
       IN  /\ environ' = r.env
           /\ Recorded(key, r)
    /\ calls' = calls + 1
    /\ UNCHANGED <<dotenv, environ0, edits, classVars, crewVars, runVars>>

\* the local environment file is edited: key is set to v, or removed (None)
EditFile(key, v) ==
    /\ edits < MaxEdits
    /\ dotenv[key] # v
    /\ dotenv' = [dotenv EXCEPT ![key] = v]
    /\ edited' = TRUE
    /\ edits' = edits + 1
    /\ UNCHANGED <<environ, environ0, lastCall, lastSeen, calls,
                   classVars, crewVars, runVars>>

NextLoader ==
    \/ \E key \in Keys : CallGetValue(key)
    \/ \E key \in Keys, v \in OptVals : EditFile(key, v)

SpecLoader == Init /\ [][NextLoader]_vars

\* ------------------------------------------------------------- crew.py
\* pydantic models: the fields of each model (all declared with Field(...),
\* that is, required)
SocialMediaPost ==
    {[name |-> "platform", type |-> "str", required |-> TRUE],
     [name |-> "content", type |-> "str", required |-> TRUE]}

ContentOutput ==
    {[name |-> "article", type |-> "str", required |-> TRUE],
     [name |-> "social_media_posts", type |-> "List[SocialMediaPost]",
      required |-> TRUE]}

\* the decorated methods of the class body, in the order they are written
Declarations_agent_after_tasks ==
    << [kind |-> "agent", name |-> "market_news_monitor_agent"],
       [kind |-> "agent", name |-> "data_analyst_agent"],
       [kind |-> "agent", name |-> "content_creator_agent"],
       [kind |-> "task", name |-> "monitor_market_news_task"],
       [kind |-> "task", name |-> "analyze_market_data_task"],
       [kind |-> "task", name |-> "create_content_task"],
       [kind |-> "task", name |-> "quality_assurance_task"],
       [kind |-> "agent", name |-> "quality_assurance_agent"],
       [kind |-> "crew", name |-> "crew"] >>

Declarations ==
    << [kind |-> "agent", name |-> "market_news_monitor_agent"],
       [kind |-> "agent", name |-> "data_analyst_agent"],
       [kind |-> "agent", name |-> "content_creator_agent"],
       [kind |-> "agent", name |-> "quality_assurance_agent"],
       [kind |-> "task", name |-> "monitor_market_news_task"],
       [kind |-> "task", name |-> "analyze_market_data_task"],
       [kind |-> "task", name |-> "create_content_task"],
       [kind |-> "task", name |-> "quality_assurance_task"],
       [kind |-> "crew", name |-> "crew"] >>

Range(seq) == {seq[i] : i \in 1..Len(seq)}

\* Agent(config=..., tools=[...]) as built by each @agent method
Agent(name) ==
    [name |-> name,
     tools |-> CASE name = "market_news_monitor_agent" -> {"serper", "scraper"}
                 [] name = "data_analyst_agent" -> {"serper", "searcher"}
                 [] name = "content_creator_agent" -> {"serper", "scraper"}
                 [] OTHER -> {}]

\* config/tasks.yaml: the agent each task's configuration names
tasks_config_agent(task) ==
    CASE task = "monitor_market_news_task" -> "market_news_monitor_agent"
      [] task = "analyze_market_data_task" -> "data_analyst_agent"
      [] task = "create_content_task" -> "content_creator_agent"
      [] OTHER -> "quality_assurance_agent"

\* Task(config=..., ...) as built by each @task method; the agent named by
\* the configuration is resolved among the registered agents ("" if absent)
Task_all_report(name) ==
    [name |-> name,
     agent |-> IF tasks_config_agent(name) \in Range(agentsReg)
               THEN tasks_config_agent(name) ELSE "",
     context |-> {},
     output_pydantic |-> IF name = "quality_assurance_task" THEN ContentOutput ELSE {},
     output_file |-> "report.md"]

Task(name) ==
    [name |-> name,
     agent |-> IF tasks_config_agent(name) \in Range(agentsReg)
               THEN tasks_config_agent(name) ELSE "",
     context |-> {},
     output_pydantic |-> IF name = "quality_assurance_task" THEN ContentOutput ELSE {},
     output_file |-> IF name = "quality_assurance_task" THEN "report.md" ELSE ""]

\* self.agents and self.tasks: one instance per registered method, in
\* registration order
self_agents == [i \in 1..Len(agentsReg) |-> Agent(agentsReg[i])]

self_tasks_reversed ==
    [i \in 1..Len(tasksReg) |-> Task(tasksReg[Len(tasksReg) + 1 - i])]

self_tasks == [i \in 1..Len(tasksReg) |-> Task(tasksReg[i])]

\* AgenticContentCreation.crew()
crew == [agents |-> self_agents, tasks |-> self_tasks, process |-> "sequential"]

\* Process.sequential: the indices of the tasks that may start now
ReadyTasks_overlapping(c, nStarted, nFinished, nowRunning) ==
    IF nStarted < Len(c.tasks) THEN {nStarted + 1} ELSE {}

ReadyTasks(c, nStarted, nFinished, nowRunning) ==
    IF c.process = "sequential"
    THEN IF nowRunning = {} /\ nStarted = nFinished /\ nStarted < Len(c.tasks)
         THEN {nStarted + 1} ELSE {}
    ELSE {i \in 1..Len(c.tasks) : c.tasks[i].name \notin nowRunning}

\* line 30-31: serperApiKey = get_value('SERPER_API_KEY'); print(...)
ClassBodyLine30 ==
    /\ pc = "line30"
    /\ LET r == get_value(environ, dotenv, SERPER_API_KEY)
       IN  /\ environ' = r.env
           /\ serperApiKey' = r.result
           /\ Recorded(SERPER_API_KEY, r)
    /\ pc' = "line33"
    /\ UNCHANGED <<dotenv, environ0, calls, edits, exception, exports, tools,
                   agentsReg, tasksReg, crewReg, crewVars, runVars>>

\* line 33: os.environ["SERPER_API_KEY"] = get_value('SERPER_API_KEY');
\* os.environ accepts only str and raises TypeError for None
ClassBodyLine33 ==
    /\ pc = "line33"
    /\ LET r == get_value(environ, dotenv, SERPER_API_KEY)
       IN  /\ Recorded(SERPER_API_KEY, r)
           /\ IF r.result = None
              THEN /\ environ' = r.env
                   /\ exception' = "TypeError"
                   /\ pc' = "raised"
                   /\ exports' = exports
              ELSE /\ environ' = [r.env EXCEPT ![SERPER_API_KEY] = r.result]
                   /\ exception' = exception
                   /\ pc' = "line34"
                   /\ exports' = exports + 1
    /\ UNCHANGED <<dotenv, environ0, calls, edits, serperApiKey, tools,
                   agentsReg, tasksReg, crewReg, crewVars, runVars>>

\* lines 34-36: the three tool instances
ClassBodyTools ==
    /\ pc = "line34"
    /\ tools' = {"serper", "scraper", "searcher"}
    /\ pc' = "decl"
    /\ UNCHANGED <<loaderVars, exception, serperApiKey, exports,
                   agentsReg, tasksReg, crewReg, crewVars, runVars>>

\* lines 41-97: the next decorated method is registered by its decorator
Register ==
    /\ pc = "decl"
    /\ LET n == Len(agentsReg) + Len(tasksReg) + (IF crewReg THEN 1 ELSE 0)
           d == Declarations[n + 1]
       IN  /\ agentsReg' = IF d.kind = "agent" THEN Append(agentsReg, d.name)
                           ELSE agentsReg
           /\ tasksReg' = IF d.kind = "task" THEN Append(tasksReg, d.name)
                          ELSE tasksReg
           /\ crewReg' = (crewReg \/ d.kind = "crew")
           /\ pc' = IF n + 1 = Len(Declarations) THEN "defined" ELSE "decl"
    /\ UNCHANGED <<loaderVars, exception, serperApiKey, exports, tools,
                   crewVars, runVars>>

\* AgenticContentCreation()
Instantiate ==
    /\ pc = "defined"
    /\ instances < MaxInstances
    /\ instances' = instances + 1
    /\ UNCHANGED <<loaderVars, classVars, crewCalls, crewObj, runVars>>

\* AgenticContentCreation().crew()
CallCrew ==
    /\ instances >= 1
    /\ crewCalls < MaxCrewCalls
    /\ runPc # "running"
    /\ crewObj' = crew
    /\ crewCalls' = crewCalls + 1
    /\ UNCHANGED <<loaderVars, classVars, instances, runVars>>

\* crew().kickoff()
Kickoff ==
    /\ crewCalls >= 1
    /\ runs < MaxRuns
    /\ runPc # "running"
    /\ runPc' = "running"
    /\ started' = <<>> /\ finished' = <<>> /\ running' = {}
    /\ runs' = runs + 1
    /\ UNCHANGED <<loaderVars, classVars, crewVars>>

StartTask ==
    /\ runPc = "running"
    /\ \E i \in ReadyTasks(crewObj, Len(started), Len(finished), running) :
          /\ started' = Append(started, crewObj.tasks[i].name)
          /\ running' = running \cup {crewObj.tasks[i].name}
    /\ UNCHANGED <<loaderVars, classVars, crewVars, runs, runPc, finished>>

FinishTask ==
    /\ runPc = "running"
    /\ \E t \in running :
          /\ finished' = Append(finished, t)
          /\ running' = running \ {t}
          /\ runPc' = IF Len(finished) + 1 = Len(crewObj.tasks)
                      THEN "done" ELSE "running"
    /\ UNCHANGED <<loaderVars, classVars, crewVars, runs, started>>

\* a task raises: the framework surfaces the error, nothing is retried
FailTask ==
    /\ runPc = "running"
    /\ running # {}
    /\ running' = {}
    /\ runPc' = "failed"
    /\ UNCHANGED <<loaderVars, classVars, crewVars, runs, started, finished>>

Next ==
    \/ ClassBodyLine30
    \/ ClassBodyLine33
    \/ ClassBodyTools
    \/ Register
    \/ Instantiate
    \/ CallCrew
    \/ Kickoff
    \/ StartTask
    \/ FinishTask
    \/ FailTask

Spec == Init /\ [][Next]_vars

\* ================================================================ claims
AgentOrder ==
    << "market_news_monitor_agent", "data_analyst_agent",
       "content_creator_agent", "quality_assurance_agent" >>

TaskOrder ==
    << "monitor_market_news_task", "analyze_market_data_task",
       "create_content_task", "quality_assurance_task" >>

Names(seq) == [i \in 1..Len(seq) |-> seq[i].name]

IsPrefix(s, t) == Len(s) <= Len(t) /\ \A i \in 1..Len(s) : s[i] = t[i]

Called == lastCall.key # ""

\* C1: every crew() call returns a pipeline with exactly the four agents and
\* the four tasks, each once, in the declared order.
C1_FourAgentsFourTasksInOrder ==
    crewCalls >= 1 =>
        /\ Names(crewObj.agents) = AgentOrder
        /\ Names(crewObj.tasks) = TaskOrder

C1_Witness == crewCalls >= 2 /\ Len(crewObj.tasks) = 4

C3_SetKeyReturnsItsValue ==
    Called =>
        LET k == lastCall.key
            setTo == {lastCall.envBefore[k], lastCall.fileBefore[k]} \ {None}
        IN  setTo # {} => lastCall.result \in setTo

C3_Witness ==
    /\ Called
    /\ lastCall.envBefore[lastCall.key] = None
    /\ lastCall.fileBefore[lastCall.key] # None
    /\ lastCall.result = lastCall.fileBefore[lastCall.key]

\* C4: get_value(key) of a key set neither in the file nor in the process
\* environment returns None and raises nothing.
C4_UnsetKeyReturnsNone ==
    (Called /\ lastCall.envBefore[lastCall.key] = None
            /\ lastCall.fileBefore[lastCall.key] = None)
        => (lastCall.result = None /\ exception = "none")

C4_Witness ==
    /\ Called
    /\ lastCall.envBefore[lastCall.key] = None
    /\ lastCall.fileBefore[lastCall.key] = None
    /\ lastCall.result = None
    /\ calls >= 1

\* C5: with SERPER_API_KEY set neither in the file nor in the process
\* environment the class body still completes and raises no exception.
C5_MissingKeyRaisesNothing ==
    (environ0[SERPER_API_KEY] = None /\ dotenv[SERPER_API_KEY] = None)
        => exception = "none"

\* C6 as stated: a key defined in the file is answered from the file.
C6_FileValueWins ==
    (Called /\ lastCall.fileBefore[lastCall.key] # None)
        => lastCall.result = lastCall.fileBefore[lastCall.key]

\* C6 amended: get_value(key) answers from the process environment and uses
\* the file only when the process environment does not define the key.
C6_EnvironValueWins ==
    Called =>
        LET k == lastCall.key
        IN  lastCall.result = IF lastCall.envBefore[k] # None
                              THEN lastCall.envBefore[k]
                              ELSE lastCall.fileBefore[k]

C6_Witness ==
    /\ Called
    /\ lastCall.envBefore[lastCall.key] # None
    /\ lastCall.fileBefore[lastCall.key] # None
    /\ lastCall.envBefore[lastCall.key] # lastCall.fileBefore[lastCall.key]
    /\ lastCall.result = lastCall.envBefore[lastCall.key]

Assembled == pc = "defined"

OtherKeys == Keys \ {SERPER_API_KEY}

\* C7 as stated: SERPER_API_KEY is assigned once, and every other variable
\* of the process environment is after assembly what it was before.
C7_OnlySerperKeyChanges ==
    /\ exports <= 1
    /\ Assembled => \A k \in OtherKeys : environ[k] = environ0[k]

\* C7 amended: SERPER_API_KEY is assigned once, to the loader's value; every
\* other variable that was set keeps its value, and one that was unset holds
\* what the file defines for it (the loader exports the file's keys).
C7_SetVariablesKept ==
    /\ exports <= 1
    /\ Assembled =>
          /\ exports = 1
          /\ environ[SERPER_API_KEY] = serperApiKey
    /\ pc # "line30" =>
          \A k \in OtherKeys :
              environ[k] = IF environ0[k] # None THEN environ0[k] ELSE dotenv[k]

C7_Witness ==
    /\ Assembled
    /\ instances >= 2 /\ crewCalls >= 2
    /\ exports = 1
    /\ \E k \in OtherKeys : environ0[k] = None /\ environ[k] # None

C9_OnlyLastTaskDeclaresOutput ==
    crewCalls >= 1 =>
        \A i \in 1..Len(crewObj.tasks) :
            IF i = Len(crewObj.tasks)
            THEN /\ crewObj.tasks[i].name = "quality_assurance_task"
                 /\ crewObj.tasks[i].output_file = "report.md"
                 /\ crewObj.tasks[i].output_pydantic = ContentOutput
                 /\ {f.name : f \in crewObj.tasks[i].output_pydantic}
                        = {"article", "social_media_posts"}
                 /\ \A f \in crewObj.tasks[i].output_pydantic \cup SocialMediaPost :
                        f.required
                 /\ \E f \in crewObj.tasks[i].output_pydantic :
                        f.name = "article" /\ f.type = "str"
                 /\ \E f \in crewObj.tasks[i].output_pydantic :
                        f.name = "social_media_posts"
                            /\ f.type = "List[SocialMediaPost]"
                 /\ {<<f.name, f.type>> : f \in SocialMediaPost}
                        = {<<"platform", "str">>, <<"content", "str">>}
            ELSE /\ crewObj.tasks[i].output_file = ""
                 /\ crewObj.tasks[i].output_pydantic = {}

C9_Witness ==
    /\ crewCalls >= 1
    /\ Len(crewObj.tasks) = 4
    /\ crewObj.tasks[4].output_file = "report.md"
    /\ crewObj.tasks[1].output_file = ""

C10_Idempotent ==
    (Called /\ lastCall.consecutive)
        => /\ lastCall.result = lastCall.prevResult
           /\ lastCall.envAfter = lastCall.envBefore

FileChanged ==
    /\ Called
    /\ lastCall.hasPrev
    /\ lastCall.fileBefore[lastCall.key] # lastCall.prevFile

\* C10 as stated: get_value is idempotent, and a call made after the file's
\* value for the key has changed returns the new value.
C10_ChangedFileValueReturned ==
    /\ C10_Idempotent
    /\ (FileChanged /\ lastCall.fileBefore[lastCall.key] # None)
          => lastCall.result = lastCall.fileBefore[lastCall.key]

\* C10 amended: get_value is idempotent and reads the file on every call, but
\* a value it once returned for a key stays: a later call returns the file's
\* new value only if the key is still unset in the process environment.
C10_ReturnedValueStays ==
    /\ C10_Idempotent
    /\ (Called /\ lastCall.hasPrev /\ lastCall.prevResult # None)
          => lastCall.result = lastCall.prevResult
    /\ (FileChanged /\ lastCall.envBefore[lastCall.key] = None)
          => lastCall.result = lastCall.fileBefore[lastCall.key]

C10_Witness ==
    /\ FileChanged
    /\ lastCall.fileBefore[lastCall.key] # None
    /\ lastCall.prevResult # None
    /\ lastCall.result = lastCall.prevResult
    /\ lastCall.result # lastCall.fileBefore[lastCall.key]

====
